---- MODULE Spec2Model ----
(***************************************************************************)
(* A model of eddylicious/readers/hdf5_readers.py: the points reader       *)
(* read_points_from_hdf5 and the velocity reader factory                   *)
(* read_velocity_from_hdf5 with its closure read(timeIndex).               *)
(*                                                                         *)
(* Numbers are held in quarter units (the stored value 1.0 is the integer  *)
(* 4), so that 0.5*(a+b) applied twice in a row stays exact.               *)
(* Python indices are 0-based; the sequences below are 1-based, so row k   *)
(* of an array a is a.rows[k+1].                                           *)
(***************************************************************************)
EXTENDS Integers, Sequences, FiniteSets, TLC

VARIABLES store, reader, result, openHandles

vars == <<store, reader, result, openHandles>>

(***************************************************************************)
(* Bounds of the model.                                                    *)
(***************************************************************************)
NPointsY == 2

NPointsZ == 2

NTimes == 2

MaxExclude == 3

(***************************************************************************)
(* float('nan'), the "unset" marker of the optional float parameters, and  *)
(* np.isnan.  A set float v is the one-element tuple <<v>>.                *)
(***************************************************************************)
NaN == <<>>

isnan(x) == x = NaN

AddValsBot == {NaN, <<0>>}

AddValsTop == {NaN, <<200>>}

ExchangeValsBot == {NaN, <<4>>}

ExchangeValsTop == {NaN, <<400>>}

(***************************************************************************)
(* 2d arrays.  live is TRUE for an h5py Dataset bound to the open file     *)
(* (reads and writes go to the store) and FALSE for a numpy array held in  *)
(* memory.                                                                 *)
(***************************************************************************)
shape(a) == <<Len(a.rows), a.ncols>>

ndarray(rows, ncols) == [rows |-> rows, ncols |-> ncols, live |-> FALSE]

Dataset(rows, ncols) == [rows |-> rows, ncols |-> ncols, live |-> TRUE]

\* v*np.ones((1, n))
ones(v, n) == ndarray(<<[j \in 1..n |-> v]>>, n)

\* np.append(a, b, axis=0): a new array in memory
append(a, b) == ndarray(a.rows \o b.rows, a.ncols)

\* a Python index k into an axis of length n: negative counts from the end
PyIndex(k, n) == IF k < 0 THEN k + n ELSE k

InRange(k, n) == PyIndex(k, n) >= 0 /\ PyIndex(k, n) < n

\* a Python slice bound into an axis of length n: clipped to 0..n
PySliceBound(k, n) ==
    IF k < 0 THEN (IF k + n < 0 THEN 0 ELSE k + n)
    ELSE (IF k > n THEN n ELSE k)

\* a[k, :]
getrow(a, k) == a.rows[PyIndex(k, Len(a.rows)) + 1]

\* a[:stop, :]
SliceTo(a, stop) ==
    ndarray(SubSeq(a.rows, 1, PySliceBound(stop, Len(a.rows))), a.ncols)

\* a[start:, :]
SliceFrom(a, start) ==
    ndarray(SubSeq(a.rows, PySliceBound(start, Len(a.rows)) + 1, Len(a.rows)),
            a.ncols)

\* a[k, :] = row, in place (a Dataset stays a Dataset)
setrow(a, k, row) ==
    [a EXCEPT !.rows[PyIndex(k, Len(a.rows)) + 1] = row]

\* a[k, :] = v, a scalar broadcast over the row
fillrow(a, k, v) == setrow(a, k, [j \in 1..a.ncols |-> v])

\* 0.5*(r1 + r2), element by element
average(r1, r2) == [j \in 1..Len(r1) |-> (r1[j] + r2[j]) \div 2]

(***************************************************************************)
(* The store at readPath.  kind is "absent" (no file), "empty" (a file     *)
(* without groups) or "full" (the layout the readers expect).              *)
(***************************************************************************)
StoredPointsY == [i \in 1..NPointsY |-> [j \in 1..NPointsZ |-> 4 * (3*i*i + j)]]

StoredPointsZ == [i \in 1..NPointsY |-> [j \in 1..NPointsZ |-> 4 * (10*j + i)]]

StoredComponent(c) ==
    [t \in 1..NTimes |->
        [i \in 1..NPointsY |->
            [j \in 1..NPointsZ |-> 4 * (100*c + 30*t + 3*i*i + j)]]]

StoredVelocity ==
    [uX |-> StoredComponent(1), uY |-> StoredComponent(2), uZ |-> StoredComponent(3)]

FullStore ==
    [kind |-> "full", pointsY |-> StoredPointsY, pointsZ |-> StoredPointsZ,
     velocity |-> StoredVelocity]

AbsentStore ==
    [kind |-> "absent", pointsY |-> <<>>, pointsZ |-> <<>>,
     velocity |-> [uX |-> <<>>, uY |-> <<>>, uZ |-> <<>>]]

\* h5py.File(readPath, mode): 'a' creates a missing file, 'r' does not
OpenFile(s, mode) ==
    IF s.kind = "absent" /\ mode = "a" THEN [s EXCEPT !.kind = "empty"] ELSE s

\* the error of opening the file and looking up its groups, "none" without
OpenError(s, mode) ==
    IF s.kind = "absent" /\ mode = "r" THEN "OSError"
    ELSE IF s.kind # "full" THEN "KeyError"
    ELSE "none"

(***************************************************************************)
(* read_points_from_hdf5.  A stage holds the two local variables pointsY   *)
(* and pointsZ and the error raised so far ("none" while running).         *)
(***************************************************************************)
PointsParams ==
    [addValBot : AddValsBot, addValTop : AddValsTop,
     excludeBot : 0..MaxExclude, excludeTop : 0..MaxExclude,
     exchangeValBot : ExchangeValsBot, exchangeValTop : ExchangeValsTop]

\* pointsY = dbFile["points"]["pointsY"]; pointsZ = dbFile["points"]["pointsZ"]
LoadPoints(s) ==
    [pointsY |-> Dataset(s.pointsY, NPointsZ),
     pointsZ |-> Dataset(s.pointsZ, NPointsZ),
     err |-> "none"]

\* if not np.isnan(addValBot): prepend a row to both arrays
PadPointsBot(st, p, nPointsZ) ==
    IF isnan(p.addValBot) THEN st
    ELSE [st EXCEPT
            !.pointsY = append(ones(p.addValBot[1], nPointsZ), st.pointsY),
            !.pointsZ = append(ndarray(<<getrow(st.pointsZ, 0)>>, st.pointsZ.ncols),
                               st.pointsZ)]

\* a faulty PadPointsTop: the row added to pointsZ copies the last row
PadPointsTopLastRow(st, p, nPointsZ) ==
    IF isnan(p.addValTop) THEN st
    ELSE [st EXCEPT
            !.pointsY = append(st.pointsY, ones(p.addValTop[1], nPointsZ)),
            !.pointsZ = append(st.pointsZ,
                               ndarray(<<getrow(st.pointsZ, -1)>>, st.pointsZ.ncols))]

\* if not np.isnan(addValTop): append a row to both arrays
PadPointsTop(st, p, nPointsZ) ==
    IF isnan(p.addValTop) THEN st
    ELSE [st EXCEPT
            !.pointsY = append(st.pointsY, ones(p.addValTop[1], nPointsZ)),
            !.pointsZ = append(st.pointsZ,
                               ndarray(<<getrow(st.pointsZ, 0)>>, st.pointsZ.ncols))]

\* a faulty CapPointsTop: nPointsY is the row count before the top pad
CapPointsTopStale(st, p) ==
    LET nPointsY == shape(st.pointsY)[1] - (IF isnan(p.addValTop) THEN 0 ELSE 1)
    IN  IF p.excludeTop = 0 THEN st
        ELSE [st EXCEPT
                !.pointsY = SliceTo(st.pointsY, nPointsY - p.excludeTop),
                !.pointsZ = SliceTo(st.pointsZ, nPointsY - p.excludeTop)]

\* if excludeTop: keep the first nPointsY-excludeTop rows of both arrays
CapPointsTop(st, p) ==
    LET nPointsY == shape(st.pointsY)[1]
    IN  IF p.excludeTop = 0 THEN st
        ELSE [st EXCEPT
                !.pointsY = SliceTo(st.pointsY, nPointsY - p.excludeTop),
                !.pointsZ = SliceTo(st.pointsZ, nPointsY - p.excludeTop)]

\* a faulty CapPointsBot: only pointsY is trimmed
CapPointsBotOnlyY(st, p) ==
    IF p.excludeBot = 0 THEN st
    ELSE [st EXCEPT !.pointsY = SliceFrom(st.pointsY, p.excludeBot)]

\* if excludeBot: drop the first excludeBot rows of both arrays
CapPointsBot(st, p) ==
    IF p.excludeBot = 0 THEN st
    ELSE [st EXCEPT
            !.pointsY = SliceFrom(st.pointsY, p.excludeBot),
            !.pointsZ = SliceFrom(st.pointsZ, p.excludeBot)]

\* if not np.isnan(exchangeValBot): pointsY[0, :] = exchangeValBot
ExchangeBot(st, p) ==
    IF st.err # "none" \/ isnan(p.exchangeValBot) THEN st
    ELSE IF ~InRange(0, Len(st.pointsY.rows)) THEN [st EXCEPT !.err = "IndexError"]
    ELSE [st EXCEPT !.pointsY = fillrow(st.pointsY, 0, p.exchangeValBot[1])]

\* a faulty ExchangeTop: the last row of pointsZ is overwritten as well
ExchangeTopBothArrays(st, p) ==
    IF st.err # "none" \/ isnan(p.exchangeValTop) THEN st
    ELSE IF ~InRange(-1, Len(st.pointsY.rows)) THEN [st EXCEPT !.err = "IndexError"]
    ELSE [st EXCEPT
            !.pointsY = fillrow(st.pointsY, -1, p.exchangeValTop[1]),
            !.pointsZ = fillrow(ndarray(st.pointsZ.rows, st.pointsZ.ncols), -1,
                                p.exchangeValTop[1])]

\* if not np.isnan(exchangeValTop): pointsY[-1, :] = exchangeValTop
ExchangeTop(st, p) ==
    IF st.err # "none" \/ isnan(p.exchangeValTop) THEN st
    ELSE IF ~InRange(-1, Len(st.pointsY.rows)) THEN [st EXCEPT !.err = "IndexError"]
    ELSE [st EXCEPT !.pointsY = fillrow(st.pointsY, -1, p.exchangeValTop[1])]

\* the stages of the body, in order: after the load, the two pads, the two
\* caps and the two exchanges
PointsStages(s, p) ==
    LET s0 == LoadPoints(s)
        nPointsZ == shape(s0.pointsY)[2]
        s1 == PadPointsBot(s0, p, nPointsZ)
        s2 == PadPointsTop(s1, p, nPointsZ)
        s3 == CapPointsTop(s2, p)
        s4 == CapPointsBot(s3, p)
        s5 == ExchangeBot(s4, p)
        s6 == ExchangeTop(s5, p)
    IN  <<s0, s1, s2, s3, s4, s5, s6>>

\* what the assignments to a Dataset leave in the file: pointsY while it is
\* still the Dataset of the file opened in mode 'a', pointsZ never assigned
PointsStoreAfter(s, last) ==
    IF last.pointsY.live THEN [s EXCEPT !.pointsY = last.pointsY.rows] ELSE s

\* the whole call: the error, the returned list, the stages and the store
\* the call leaves behind
read_points_from_hdf5(s, p) ==
    IF OpenError(s, "a") # "none"
    THEN [err |-> OpenError(s, "a"), out |-> <<>>, stages |-> <<>>,
          store |-> OpenFile(s, "a")]
    ELSE LET st == PointsStages(s, p)
             last == st[Len(st)]
         IN  [err |-> last.err,
              out |-> IF last.err = "none" THEN <<last.pointsY, last.pointsZ>> ELSE <<>>,
              stages |-> st,
              store |-> PointsStoreAfter(OpenFile(s, "a"), last)]

(***************************************************************************)
(* read_velocity_from_hdf5 and its closure read.  The configuration the    *)
(* closure captures carries the attribute reader ("hdf5" once made).       *)
(***************************************************************************)
ReaderConfigs ==
    [addValBot : AddValsBot, addValTop : AddValsTop,
     excludeBot : 0..MaxExclude, excludeTop : 0..MaxExclude,
     interpValBot : BOOLEAN, interpValTop : BOOLEAN, reader : {"hdf5"}]

NoReader ==
    [addValBot |-> NaN, addValTop |-> NaN, excludeBot |-> 0, excludeTop |-> 0,
     interpValBot |-> FALSE, interpValTop |-> FALSE, reader |-> "none"]

\* read_velocity_from_hdf5(readPath, ...): the closure and its attribute
read_velocity_from_hdf5(addValBot, addValTop, excludeBot, excludeTop, interpValBot, interpValTop) ==
    [addValBot |-> addValBot, addValTop |-> addValTop,
     excludeBot |-> excludeBot, excludeTop |-> excludeTop,
     interpValBot |-> interpValBot, interpValTop |-> interpValTop,
     reader |-> "hdf5"]

\* uX = dbFile["velocity"]["uX"][timeIndex, :, :], and uY, uZ: copies in memory
LoadVelocity(s, timeIndex) ==
    IF ~InRange(timeIndex, Len(s.velocity.uX))
    THEN [uX |-> ndarray(<<>>, NPointsZ), uY |-> ndarray(<<>>, NPointsZ),
          uZ |-> ndarray(<<>>, NPointsZ), err |-> "IndexError"]
    ELSE [uX |-> ndarray(s.velocity.uX[timeIndex + 1], NPointsZ),
          uY |-> ndarray(s.velocity.uY[timeIndex + 1], NPointsZ),
          uZ |-> ndarray(s.velocity.uZ[timeIndex + 1], NPointsZ),
          err |-> "none"]

\* if not np.isnan(addValBot): prepend a row of addValBot
PadVelocityBot(st, c, nPointsZ) ==
    IF st.err # "none" \/ isnan(c.addValBot) THEN st
    ELSE [st EXCEPT
           !.uX = append(ones(c.addValBot[1], nPointsZ), st.uX),
           !.uY = append(ones(c.addValBot[1], nPointsZ), st.uY),
           !.uZ = append(ones(c.addValBot[1], nPointsZ), st.uZ)]

\* if not np.isnan(addValTop): append a row of addValTop
PadVelocityTop(st, c, nPointsZ) ==
    IF st.err # "none" \/ isnan(c.addValTop) THEN st
    ELSE [st EXCEPT
           !.uX = append(st.uX, ones(c.addValTop[1], nPointsZ)),
           !.uY = append(st.uY, ones(c.addValTop[1], nPointsZ)),
           !.uZ = append(st.uZ, ones(c.addValTop[1], nPointsZ))]

\* u[k, :] = 0.5*(u[k, :] + u[other, :])
blend(u, k, other) == setrow(u, k, average(getrow(u, k), getrow(u, other)))

\* a faulty InterpTop: the rows blended are one too low
InterpTopOffByOne(st, c, topmostPoint) ==
    LET n == Len(st.uX.rows)
    IN  IF st.err # "none" \/ ~c.interpValTop \/ c.excludeTop = 0 THEN st
        ELSE IF ~InRange(topmostPoint - 2, n) \/ ~InRange(topmostPoint - 1, n)
             THEN [st EXCEPT !.err = "IndexError"]
        ELSE [st EXCEPT
               !.uX = blend(st.uX, topmostPoint - 1, topmostPoint - 2),
               !.uY = blend(st.uY, topmostPoint - 1, topmostPoint - 2),
               !.uZ = blend(st.uZ, topmostPoint - 1, topmostPoint - 2)]

\* if interpValTop and excludeTop: blend row topmostPoint-1 with row topmostPoint
InterpTop(st, c, topmostPoint) ==
    LET n == Len(st.uX.rows)
    IN  IF st.err # "none" \/ ~c.interpValTop \/ c.excludeTop = 0 THEN st
        ELSE IF ~InRange(topmostPoint - 1, n) \/ ~InRange(topmostPoint, n)
             THEN [st EXCEPT !.err = "IndexError"]
        ELSE [st EXCEPT
               !.uX = blend(st.uX, topmostPoint - 1, topmostPoint),
               !.uY = blend(st.uY, topmostPoint - 1, topmostPoint),
               !.uZ = blend(st.uZ, topmostPoint - 1, topmostPoint)]

\* if interpValBot and excludeBot: blend row excludeBot with row excludeBot-1
InterpBot(st, c) ==
    LET n == Len(st.uX.rows)
    IN  IF st.err # "none" \/ ~c.interpValBot \/ c.excludeBot = 0 THEN st
        ELSE IF ~InRange(c.excludeBot - 1, n) \/ ~InRange(c.excludeBot, n)
             THEN [st EXCEPT !.err = "IndexError"]
        ELSE [st EXCEPT
               !.uX = blend(st.uX, c.excludeBot, c.excludeBot - 1),
               !.uY = blend(st.uY, c.excludeBot, c.excludeBot - 1),
               !.uZ = blend(st.uZ, c.excludeBot, c.excludeBot - 1)]

\* a faulty CapVelocityTop: one row too many is dropped
CapVelocityTopOffByOne(st, c, topmostPoint) ==
    IF st.err # "none" \/ c.excludeTop = 0 THEN st
    ELSE [st EXCEPT
           !.uX = SliceTo(st.uX, topmostPoint - 1),
           !.uY = SliceTo(st.uY, topmostPoint - 1),
           !.uZ = SliceTo(st.uZ, topmostPoint - 1)]

\* if excludeTop: keep the first topmostPoint rows
CapVelocityTop(st, c, topmostPoint) ==
    IF st.err # "none" \/ c.excludeTop = 0 THEN st
    ELSE [st EXCEPT
           !.uX = SliceTo(st.uX, topmostPoint),
           !.uY = SliceTo(st.uY, topmostPoint),
           !.uZ = SliceTo(st.uZ, topmostPoint)]

\* if excludeBot: drop the first excludeBot rows
CapVelocityBot(st, c) ==
    IF st.err # "none" \/ c.excludeBot = 0 THEN st
    ELSE [st EXCEPT
           !.uX = SliceFrom(st.uX, c.excludeBot),
           !.uY = SliceFrom(st.uY, c.excludeBot),
           !.uZ = SliceFrom(st.uZ, c.excludeBot)]

\* the stages of read, in order: after the load, the two pads, the two
\* interpolations and the two caps
VelocityStages(s, c, timeIndex) ==
    LET s0 == LoadVelocity(s, timeIndex)
        nPointsZ == shape(s0.uX)[2]
        s1 == PadVelocityBot(s0, c, nPointsZ)
        s2 == PadVelocityTop(s1, c, nPointsZ)
        nPointsY == shape(s2.uX)[1]
        topmostPoint == nPointsY - c.excludeTop
        s3 == InterpTop(s2, c, topmostPoint)
        s4 == InterpBot(s3, c)
        s5 == CapVelocityTop(s4, c, topmostPoint)
        s6 == CapVelocityBot(s5, c)
    IN  <<s0, s1, s2, s3, s4, s5, s6>>

\* a faulty VelocityStoreAfter: the first row read returns is written back
\* to the file
VelocityStoreWriteBack(s, timeIndex, last) ==
    IF last.err = "none" /\ Len(last.uX.rows) > 0
    THEN [s EXCEPT !.velocity.uX[timeIndex + 1][1] = last.uX.rows[1]]
    ELSE s

\* what read leaves in the file: it is opened in mode 'r' and every array the
\* body assigns to is a copy in memory
VelocityStoreAfter(s, timeIndex, last) == s

\* the whole call read(timeIndex) of a reader with configuration c
read(s, c, timeIndex) ==
    IF OpenError(s, "r") # "none"
    THEN [err |-> OpenError(s, "r"), out |-> <<>>, stages |-> <<>>,
          store |-> OpenFile(s, "r")]
    ELSE LET st == VelocityStages(s, c, timeIndex)
             last == st[Len(st)]
         IN  [err |-> last.err,
              out |-> IF last.err = "none" THEN <<last.uX, last.uY, last.uZ>> ELSE <<>>,
              stages |-> st,
              store |-> VelocityStoreAfter(OpenFile(s, "r"), timeIndex, last)]

(***************************************************************************)
(* The state: the store, the reader made by the factory, the value the     *)
(* last call returned while its caller still holds it, and the handles     *)
(* open on the store.  A handle stays open for as long as an object of its *)
(* file is referenced: the local dbFile until the call ends, a returned    *)
(* Dataset until the caller lets go of it.                                 *)
(***************************************************************************)
NoResult == [kind |-> "none", err |-> "none", out |-> <<>>]

\* the handles the returned list keeps open: one if it holds a Dataset
HeldHandles(out) == IF \E i \in 1..Len(out) : out[i].live THEN 1 ELSE 0

Init ==
    /\ store \in {FullStore, AbsentStore}
    /\ reader = NoReader
    /\ result = NoResult
    /\ openHandles = 0

\* the caller makes the reader
MakeReader ==
    /\ reader.reader = "none"
    /\ result.kind = "none"
    /\ \E ab \in AddValsBot, at \in AddValsTop,
          eb \in 0..MaxExclude, et \in 0..MaxExclude,
          ib \in BOOLEAN, it \in BOOLEAN :
            reader' = read_velocity_from_hdf5(ab, at, eb, et, ib, it)
    /\ UNCHANGED <<store, result, openHandles>>

\* the caller calls read_points_from_hdf5(readPath, ...)
CallReadPoints ==
    /\ result.kind = "none"
    /\ \E p \in PointsParams :
         LET r == read_points_from_hdf5(store, p)
         IN  /\ result' = [kind |-> "points", args |-> p, before |-> store,
                           err |-> r.err, out |-> r.out, stages |-> r.stages]
             /\ store' = r.store
             /\ openHandles' = openHandles + HeldHandles(r.out)
    /\ UNCHANGED reader

\* the caller calls read(timeIndex) on the reader
CallRead ==
    /\ result.kind = "none"
    /\ reader.reader = "hdf5"
    /\ \E timeIndex \in 0..NTimes :
         LET r == read(store, reader, timeIndex)
         IN  /\ result' = [kind |-> "velocity", args |-> timeIndex, before |-> store,
                           err |-> r.err, out |-> r.out, stages |-> r.stages]
             /\ store' = r.store
             /\ openHandles' = openHandles + HeldHandles(r.out)
    /\ UNCHANGED reader

\* the caller lets go of the returned list
Discard ==
    /\ result.kind # "none"
    /\ result' = NoResult
    /\ openHandles' = openHandles - HeldHandles(result.out)
    /\ UNCHANGED <<store, reader>>

Next == MakeReader \/ CallReadPoints \/ CallRead \/ Discard

Spec == Init /\ [][Next]_vars

(***************************************************************************)
(* Notions the properties share.                                           *)
(***************************************************************************)
\* a call of the points reader (of read) has returned a value
PointsReturned == result.kind = "points" /\ result.err = "none"

VelocityReturned == result.kind = "velocity" /\ result.err = "none"

\* the row count after the optional padding of n stored rows
PaddedCount(n, a) ==
    n + (IF isnan(a.addValBot) THEN 0 ELSE 1) + (IF isnan(a.addValTop) THEN 0 ELSE 1)

\* equal as arrays: same shape, same elements
SameArray(a, b) == shape(a) = shape(b) /\ a.rows = b.rows

SameArrays(x, y) ==
    Len(x) = Len(y) /\ \A i \in 1..Len(x) : SameArray(x[i], y[i])

\* a row of ncols elements all equal to v
Filled(v, ncols) == [j \in 1..ncols |-> v]

(***************************************************************************)
(* C1: in both readers, when excludeTop + excludeBot < N, N the row count  *)
(* after padding, the call returns and every returned array has exactly    *)
(* N - excludeTop - excludeBot rows.                                       *)
(***************************************************************************)
C1_RowCount ==
    /\ (/\ result.kind = "points"
        /\ result.before.kind = "full"
        /\ result.args.excludeTop + result.args.excludeBot
             < PaddedCount(Len(result.before.pointsY), result.args))
       => /\ result.err = "none"
          /\ \A i \in 1..2 :
               Len(result.out[i].rows) =
                 PaddedCount(Len(result.before.pointsY), result.args)
                   - result.args.excludeTop - result.args.excludeBot
    /\ (/\ result.kind = "velocity"
        /\ result.before.kind = "full"
        /\ result.args < NTimes
        /\ reader.excludeTop + reader.excludeBot
             < PaddedCount(Len(result.before.velocity.uX[result.args + 1]), reader))
       => /\ result.err = "none"
          /\ \A i \in 1..3 :
               Len(result.out[i].rows) =
                 PaddedCount(Len(result.before.velocity.uX[result.args + 1]), reader)
                   - reader.excludeTop - reader.excludeBot

\* read has returned with a row padded on top and a row trimmed from each end
C1_Witness ==
    /\ VelocityReturned
    /\ ~isnan(reader.addValTop) /\ isnan(reader.addValBot)
    /\ reader.excludeTop = 1 /\ reader.excludeBot = 1
    /\ Len(result.out[1].rows) = NPointsY - 1

(***************************************************************************)
(* C2: the points reader leaves the pointsY and pointsZ datasets of the    *)
(* store as they were before the call.                                     *)
(***************************************************************************)
C2_StoreReadOnly ==
    (result.kind = "points" /\ result.before.kind = "full")
       => /\ store.pointsY = result.before.pointsY
          /\ store.pointsZ = result.before.pointsZ

(***************************************************************************)
(* The interpolation of read, for C3.  Padded is the list of the three     *)
(* components after the padding; the row counts are those of uX.           *)
(***************************************************************************)
Padded == <<result.stages[3].uX, result.stages[3].uY, result.stages[3].uZ>>

PaddedRows == Len(result.stages[3].uX.rows)

\* read has returned for a configuration with excludeTop + excludeBot < N
ReadWithinRange ==
    /\ VelocityReturned
    /\ reader.excludeTop + reader.excludeBot < PaddedRows

TopInterpolated == reader.interpValTop /\ reader.excludeTop > 0

BotInterpolated == reader.interpValBot /\ reader.excludeBot > 0

\* the last returned row is the average of padded rows N-excludeTop-1 and
\* N-excludeTop
TopBlend(i) ==
    getrow(result.out[i], -1) =
        average(getrow(Padded[i], PaddedRows - reader.excludeTop - 1),
                getrow(Padded[i], PaddedRows - reader.excludeTop))

\* the first returned row is the average of padded rows excludeBot-1 and
\* excludeBot
BotBlend(i) ==
    getrow(result.out[i], 0) =
        average(getrow(Padded[i], reader.excludeBot - 1),
                getrow(Padded[i], reader.excludeBot))

\* both interpolations write the one row that is retained
OneRowBlendedTwice ==
    /\ TopInterpolated /\ BotInterpolated
    /\ PaddedRows - reader.excludeTop - reader.excludeBot = 1

(***************************************************************************)
(* C3 as claimed: whenever read returns with excludeTop + excludeBot < N,  *)
(* top interpolation makes the last returned row the average of padded     *)
(* rows N-excludeTop-1 and N-excludeTop, and bottom interpolation makes    *)
(* the first returned row the average of padded rows excludeBot-1 and      *)
(* excludeBot, also when both are enabled and one row is retained.         *)
(***************************************************************************)
C3_Interpolation ==
    ReadWithinRange =>
        /\ TopInterpolated => \A i \in 1..3 : TopBlend(i)
        /\ BotInterpolated => \A i \in 1..3 : BotBlend(i)

(***************************************************************************)
(* C3 as amended: the same, except when both interpolations are enabled    *)
(* and one row is retained; that row is then the average of padded row     *)
(* excludeBot-1 and the average of padded rows excludeBot and              *)
(* excludeBot+1.                                                           *)
(***************************************************************************)
C3_InterpolationAmended ==
    ReadWithinRange =>
        IF OneRowBlendedTwice
        THEN \A i \in 1..3 :
                /\ Len(result.out[i].rows) = 1
                /\ getrow(result.out[i], 0) =
                     average(getrow(Padded[i], reader.excludeBot - 1),
                             average(getrow(Padded[i], reader.excludeBot),
                                     getrow(Padded[i], reader.excludeBot + 1)))
        ELSE /\ TopInterpolated => \A i \in 1..3 : TopBlend(i)
             /\ BotInterpolated => \A i \in 1..3 : BotBlend(i)

\* read has returned two rows or more, the first and the last interpolated
C3_Witness ==
    /\ ReadWithinRange
    /\ TopInterpolated /\ BotInterpolated
    /\ Len(result.out[1].rows) >= 2
    /\ getrow(result.out[1], 0) # getrow(Padded[1], reader.excludeBot)
    /\ getrow(result.out[1], -1) # getrow(Padded[1], PaddedRows - reader.excludeTop - 1)

(***************************************************************************)
(* C4: once a call has returned or failed, the handle it opened on the     *)
(* store has been released: no handle is open on the store.                *)
(***************************************************************************)
C4_HandleReleased == result.kind # "none" => openHandles = 0

(***************************************************************************)
(* C5: read has no hidden state.  Whatever calls of read and of the points *)
(* reader came before, read(t) at a valid time index returns what read(t)  *)
(* returns on the store as first stored, hence the same three arrays as    *)
(* the first read(t) of the reader, and the velocity datasets in the store *)
(* stay the stored ones.                                                   *)
(***************************************************************************)
C5_ReadDeterministic ==
    /\ store.kind = "full" => store.velocity = StoredVelocity
    /\ (result.kind = "velocity" /\ result.before.kind = "full"
            /\ result.args < NTimes)
         => /\ result.err = read(FullStore, reader, result.args).err
            /\ result.out = read(FullStore, reader, result.args).out

\* read has returned interpolated rows from a store whose pointsY an earlier
\* call of the points reader has changed
C5_Witness ==
    /\ VelocityReturned
    /\ result.before.pointsY # StoredPointsY
    /\ TopInterpolated /\ BotInterpolated
    /\ Len(result.out[1].rows) >= 1

(***************************************************************************)
(* The round trip of C6: the call that was made against the call with the  *)
(* add value unset and the exclude count 0 on each side that pads one row  *)
(* and trims one row.                                                      *)
(***************************************************************************)
BotRoundTrip(a) == ~isnan(a.addValBot) /\ a.excludeBot = 1

TopRoundTrip(a) == ~isnan(a.addValTop) /\ a.excludeTop = 1

WithoutRoundTrip(a) ==
    [a EXCEPT
       !.addValBot = IF BotRoundTrip(a) THEN NaN ELSE @,
       !.excludeBot = IF BotRoundTrip(a) THEN 0 ELSE @,
       !.addValTop = IF TopRoundTrip(a) THEN NaN ELSE @,
       !.excludeTop = IF TopRoundTrip(a) THEN 0 ELSE @]

\* the points reader with both exchange values unset
PointsRoundTripCase ==
    /\ PointsReturned
    /\ isnan(result.args.exchangeValBot) /\ isnan(result.args.exchangeValTop)
    /\ BotRoundTrip(result.args) \/ TopRoundTrip(result.args)

\* read with both interpolation flags false
VelocityRoundTripCase ==
    /\ VelocityReturned
    /\ ~reader.interpValBot /\ ~reader.interpValTop
    /\ BotRoundTrip(reader) \/ TopRoundTrip(reader)

\* the excludeTop of the call is at most the row count the call without the
\* bottom pad row trims from
TopTrimFits(n, a) == a.excludeTop <= PaddedCount(n, WithoutRoundTrip(a))

(***************************************************************************)
(* C6 as claimed: padding one row and trimming one row from the same side  *)
(* (bottom, top or both) returns the arrays of the call with that add      *)
(* value unset and that exclude count 0, whatever the other parameters.    *)
(***************************************************************************)
C6_RoundTrip ==
    /\ PointsRoundTripCase =>
         SameArrays(result.out,
                    read_points_from_hdf5(result.before,
                                          WithoutRoundTrip(result.args)).out)
    /\ VelocityRoundTripCase =>
         SameArrays(result.out,
                    read(result.before, WithoutRoundTrip(reader), result.args).out)

(***************************************************************************)
(* C6 as amended: the same, provided that in a bottom round trip           *)
(* excludeTop does not exceed the row count of the call it is compared     *)
(* with (beyond it the slice bound nPointsY-excludeTop of that call is     *)
(* negative and counts from the end).                                      *)
(***************************************************************************)
C6_RoundTripAmended ==
    /\ (PointsRoundTripCase
          /\ (BotRoundTrip(result.args)
                => TopTrimFits(Len(result.before.pointsY), result.args)))
         => SameArrays(result.out,
                       read_points_from_hdf5(result.before,
                                             WithoutRoundTrip(result.args)).out)
    /\ (VelocityRoundTripCase
          /\ (BotRoundTrip(reader)
                => TopTrimFits(Len(result.before.velocity.uX[result.args + 1]), reader)))
         => SameArrays(result.out,
                       read(result.before, WithoutRoundTrip(reader), result.args).out)

\* the points reader has returned the stored rows after a round trip on
\* both sides
C6_Witness ==
    /\ PointsRoundTripCase
    /\ BotRoundTrip(result.args) /\ TopRoundTrip(result.args)
    /\ result.out[1].rows = result.before.pointsY
    /\ result.out[2].rows = result.before.pointsZ
    /\ Len(result.out[1].rows) = NPointsY

(***************************************************************************)
(* The exchange of C7: the call that was made against the call with both   *)
(* exchange values unset.                                                  *)
(***************************************************************************)
WithoutExchange(a) == [a EXCEPT !.exchangeValBot = NaN, !.exchangeValTop = NaN]

Unexchanged == read_points_from_hdf5(result.before, WithoutExchange(result.args)).out

\* pointsZ is as without exchange, and so are the rows of pointsY other
\* than row 0 and the last row
ExchangeFrame ==
    /\ SameArray(result.out[2], Unexchanged[2])
    /\ shape(result.out[1]) = shape(Unexchanged[1])
    /\ \A k \in 2..(Len(result.out[1].rows) - 1) :
         result.out[1].rows[k] = Unexchanged[1].rows[k]
    /\ isnan(result.args.exchangeValBot) /\ Len(result.out[1].rows) > 1
         => getrow(result.out[1], 0) = getrow(Unexchanged[1], 0)
    /\ isnan(result.args.exchangeValTop) /\ Len(result.out[1].rows) > 1
         => getrow(result.out[1], -1) = getrow(Unexchanged[1], -1)
    /\ isnan(result.args.exchangeValBot) /\ isnan(result.args.exchangeValTop)
         => SameArray(result.out[1], Unexchanged[1])

LastRowExchanged ==
    ~isnan(result.args.exchangeValTop)
       => getrow(result.out[1], -1)
            = Filled(result.args.exchangeValTop[1], result.out[1].ncols)

(***************************************************************************)
(* C7 as claimed: the exchange values leave pointsZ and every row of       *)
(* pointsY but row 0 and the last row as they are without exchange; row 0  *)
(* is filled with exchangeValBot and the last row with exchangeValTop.     *)
(***************************************************************************)
C7_ExchangeOnlyPointsY ==
    PointsReturned =>
        /\ ExchangeFrame
        /\ LastRowExchanged
        /\ ~isnan(result.args.exchangeValBot)
             => getrow(result.out[1], 0)
                  = Filled(result.args.exchangeValBot[1], result.out[1].ncols)

(***************************************************************************)
(* C7 as amended: the same, except that row 0 is filled with               *)
(* exchangeValBot only if it is not also the last row with exchangeValTop  *)
(* set; the one row then holds exchangeValTop.                             *)
(***************************************************************************)
C7_ExchangeOnlyPointsYAmended ==
    PointsReturned =>
        /\ ExchangeFrame
        /\ LastRowExchanged
        /\ (~isnan(result.args.exchangeValBot)
               /\ ~(Len(result.out[1].rows) = 1 /\ ~isnan(result.args.exchangeValTop)))
             => getrow(result.out[1], 0)
                  = Filled(result.args.exchangeValBot[1], result.out[1].ncols)

\* the points reader has returned three rows or more with both ends of
\* pointsY exchanged
C7_Witness ==
    /\ PointsReturned
    /\ ~isnan(result.args.exchangeValBot) /\ ~isnan(result.args.exchangeValTop)
    /\ Len(result.out[1].rows) >= 3
    /\ getrow(result.out[1], 0) # getrow(Unexchanged[1], 0)
    /\ getrow(result.out[1], -1) # getrow(Unexchanged[1], -1)

(***************************************************************************)
(* The padding of C8, in the arrays the points reader returns when it      *)
(* pads at one end at least and trims nothing.  Shift is the number of     *)
(* rows added below the stored ones.                                       *)
(***************************************************************************)
PaddedUntrimmed ==
    /\ PointsReturned
    /\ ~isnan(result.args.addValBot) \/ ~isnan(result.args.addValTop)
    /\ result.args.excludeTop = 0 /\ result.args.excludeBot = 0

\* the arrays as the padding leaves them, before the caps and the exchanges
AfterPadding == result.stages[3]

Shift == IF isnan(result.args.addValBot) THEN 0 ELSE 1

\* every row added to pointsZ is the first stored row of pointsZ, and the
\* stored rows of pointsZ lie in order between the added rows
PaddedPointsZ ==
    /\ Len(result.out[2].rows) = PaddedCount(Len(result.before.pointsZ), result.args)
    /\ ~isnan(result.args.addValBot)
         => getrow(result.out[2], 0) = result.before.pointsZ[1]
    /\ ~isnan(result.args.addValTop)
         => getrow(result.out[2], -1) = result.before.pointsZ[1]
    /\ \A i \in 1..Len(result.before.pointsZ) :
         result.out[2].rows[Shift + i] = result.before.pointsZ[i]

\* row k (from 1) of the returned pointsY is as the padding leaves it: an
\* added row filled with its add value, a stored row unchanged
PaddedPointsYRow(k) ==
    IF k = 1 /\ ~isnan(result.args.addValBot)
    THEN result.out[1].rows[k] = Filled(result.args.addValBot[1], result.out[1].ncols)
    ELSE IF k = Shift + Len(result.before.pointsY) + 1
    THEN result.out[1].rows[k] = Filled(result.args.addValTop[1], result.out[1].ncols)
    ELSE result.out[1].rows[k] = result.before.pointsY[k - Shift]

\* row k (from 1) of the returned pointsY is one a set exchange value
\* overwrites
Exchanged(k) ==
    \/ k = 1 /\ ~isnan(result.args.exchangeValBot)
    \/ k = Len(result.out[1].rows) /\ ~isnan(result.args.exchangeValTop)

(***************************************************************************)
(* C8 as claimed: with no trimming, every row added to pointsZ is the      *)
(* first stored row of pointsZ, every row added to pointsY is filled with  *)
(* its add value, and the stored rows lie unchanged and in order between   *)
(* the added rows.                                                         *)
(***************************************************************************)
C8_PaddedRows ==
    PaddedUntrimmed =>
        /\ PaddedPointsZ
        /\ Len(result.out[1].rows) = PaddedCount(Len(result.before.pointsY), result.args)
        /\ \A k \in 1..Len(result.out[1].rows) : PaddedPointsYRow(k)

(***************************************************************************)
(* C8 as amended: the same, except for the rows of pointsY that a set      *)
(* exchange value overwrites (row 0 under exchangeValBot, the last row     *)
(* under exchangeValTop); every other returned row is as the padding left  *)
(* it.                                                                     *)
(***************************************************************************)
C8_PaddedRowsAmended ==
    PaddedUntrimmed =>
        /\ PaddedPointsZ
        /\ AfterPadding.pointsZ.rows = result.out[2].rows
        /\ \A k \in 1..Len(result.out[1].rows) :
             ~Exchanged(k) => AfterPadding.pointsY.rows[k] = result.out[1].rows[k]
        /\ Len(result.out[1].rows) = PaddedCount(Len(result.before.pointsY), result.args)
        /\ \A k \in 1..Len(result.out[1].rows) : ~Exchanged(k) => PaddedPointsYRow(k)

\* the points reader has returned the stored rows between a row added below
\* and a row added above, the stored rows of pointsZ not all alike
C8_Witness ==
    /\ PaddedUntrimmed
    /\ ~isnan(result.args.addValBot) /\ ~isnan(result.args.addValTop)
    /\ isnan(result.args.exchangeValBot) /\ isnan(result.args.exchangeValTop)
    /\ Len(result.out[2].rows) = NPointsY + 2
    /\ result.before.pointsZ[1] # result.before.pointsZ[Len(result.before.pointsZ)]
    /\ getrow(result.out[2], -1) = result.before.pointsZ[1]

(***************************************************************************)
(* C9: pointsY and pointsZ have the same shape after every step of the     *)
(* points reader, and so in the returned pair.                             *)
(***************************************************************************)
C9_SameShape ==
    result.kind = "points" =>
        /\ \A k \in 1..Len(result.stages) :
             shape(result.stages[k].pointsY) = shape(result.stages[k].pointsZ)
        /\ result.err = "none" => shape(result.out[1]) = shape(result.out[2])

\* the points reader has returned after padding, trimming and exchanging at
\* both ends
C9_Witness ==
    /\ PointsReturned
    /\ ~isnan(result.args.addValBot) /\ ~isnan(result.args.addValTop)
    /\ result.args.excludeTop > 0 /\ result.args.excludeBot > 0
    /\ ~isnan(result.args.exchangeValBot) /\ ~isnan(result.args.exchangeValTop)
    /\ Len(result.stages) = 7
    /\ shape(result.stages[3].pointsY)[1] > shape(result.stages[5].pointsY)[1]

(***************************************************************************)
(* C10: a call with a path at which no store exists ends in an error and   *)
(* creates no store at that path.                                          *)
(***************************************************************************)
C10_MissingStore ==
    (result.kind # "none" /\ result.before.kind = "absent")
       => /\ result.err # "none"
          /\ store.kind = "absent"

====
